---- MODULE Spec2Model ----
(***************************************************************************)
(* JSMkDocs: the document-tree builder (src/src/builder.js), the tree      *)
(* renderer / manifest writer (src/src/writer.js) and the page text        *)
(* (src/src/markdown.js), driven by src/src/index.js.                      *)
(*                                                                         *)
(* Strings are sequences of one-character strings, so that splitting,      *)
(* lower-casing, whitespace replacement and the path regex are computed    *)
(* character by character as the JavaScript does.                          *)
(***************************************************************************)
EXTENDS Integers, Sequences, FiniteSets, TLC

\* ------------------------------------------------------------------------
\* Bounds of the model
\* ------------------------------------------------------------------------

\* longest comment sequence given to the tree builder alone (SpecBuild)
MaxBuildComments == 3

\* longest comment sequence given to the whole pipeline (Spec)
MaxComments == 2

\* most filesystem operations the environment lets fail in one run
MaxFsErrors == 1

\* most param tags, and most data tags, of a comment given to the renderer
MaxTags == 2

\* longest page name given to formatFilename
MaxNameLen == 3

\* most tags of a comment whose tags come in any order
MaxOrderTags == 4

\* longest directive string given to parsePathNames character by character
MaxDirectiveLen == 5

\* ------------------------------------------------------------------------
\* Strings
\* ------------------------------------------------------------------------

\* JavaScript \s, as far as the model's alphabet goes
WhitespaceChars == {" ", "\t", "\n", "\r", "\f"}

IsSpace(c) == c \in WhitespaceChars

UpperChars ==
    <<"A","B","C","D","E","F","G","H","I","J","K","L","M",
      "N","O","P","Q","R","S","T","U","V","W","X","Y","Z">>

LowerChars ==
    <<"a","b","c","d","e","f","g","h","i","j","k","l","m",
      "n","o","p","q","r","s","t","u","v","w","x","y","z">>

DigitChars == <<"0","1","2","3","4","5","6","7","8","9">>

\* String.prototype.toLowerCase on one character
LowerChar(c) ==
    IF \E i \in 1..Len(UpperChars) : UpperChars[i] = c
    THEN LowerChars[CHOOSE i \in 1..Len(UpperChars) : UpperChars[i] = c]
    ELSE c

toLowerCase(s) == [i \in 1..Len(s) |-> LowerChar(s[i])]

\* the substring of s from index i (1-based) to its end
From(s, i) == SubSeq(s, i, Len(s))

\* first index >= q of s that holds no whitespace (Len(s)+1 if none)
WsRunEnd(s, q) ==
    IF \E j \in q..Len(s) : ~IsSpace(s[j])
    THEN CHOOSE j \in q..Len(s) :
            /\ ~IsSpace(s[j])
            /\ \A k \in q..(j-1) : IsSpace(s[k])
    ELSE Len(s) + 1

\* a replace that puts a hyphen and a space for every run of whitespace
RECURSIVE ReplaceWsRunsSpaced(_)
ReplaceWsRunsSpaced(s) ==
    IF s = <<>> THEN <<>>
    ELSE IF IsSpace(s[1]) THEN <<"-"," ">> \o ReplaceWsRunsSpaced(From(s, WsRunEnd(s, 1)))
    ELSE <<s[1]>> \o ReplaceWsRunsSpaced(Tail(s))

\* replace(/\s+/gu, '-'): every maximal run of whitespace becomes one hyphen
RECURSIVE ReplaceWsRuns(_)
ReplaceWsRuns(s) ==
    IF s = <<>> THEN <<>>
    ELSE IF IsSpace(s[1]) THEN <<"-">> \o ReplaceWsRuns(From(s, WsRunEnd(s, 1)))
    ELSE <<s[1]>> \o ReplaceWsRuns(Tail(s))

\* the regex \s*\/{2}\s* tried at index q of s: the index after the match,
\* or 0 when it does not match there
MatchSepAt(s, q) ==
    LET j == WsRunEnd(s, q)
    IN  IF j + 1 <= Len(s) /\ s[j] = "/" /\ s[j+1] = "/"
        THEN WsRunEnd(s, j + 2)
        ELSE 0

\* String.prototype.split(/\s*\/{2}\s*/u): cut at every leftmost match
RECURSIVE SplitDoubleSlash(_)
SplitDoubleSlash(s) ==
    IF \E q \in 1..Len(s) : MatchSepAt(s, q) # 0
    THEN LET q == CHOOSE q \in 1..Len(s) :
                    /\ MatchSepAt(s, q) # 0
                    /\ \A r \in 1..(q-1) : MatchSepAt(s, r) = 0
         IN  <<SubSeq(s, 1, q - 1)>> \o SplitDoubleSlash(From(s, MatchSepAt(s, q)))
    ELSE <<s>>

\* ------------------------------------------------------------------------
\* JavaScript objects used as maps: property keys of `{}`
\* ------------------------------------------------------------------------

\* String(undefined), the key a[undefined] reads and writes
UndefinedKey == <<"u","n","d","e","f","i","n","e","d">>

\* the properties every `{}` inherits from Object.prototype; reading one of
\* them from an empty object gives a truthy value that has no push method
ObjectPrototypeKeys ==
    { <<"c","o","n","s","t","r","u","c","t","o","r">>,
      <<"t","o","S","t","r","i","n","g">>,
      <<"t","o","L","o","c","a","l","e","S","t","r","i","n","g">>,
      <<"v","a","l","u","e","O","f">>,
      <<"h","a","s","O","w","n","P","r","o","p","e","r","t","y">>,
      <<"i","s","P","r","o","t","o","t","y","p","e","O","f">>,
      <<"p","r","o","p","e","r","t","y","I","s","E","n","u","m","e","r","a","b","l","e">>,
      <<"_","_","p","r","o","t","o","_","_">>,
      <<"_","_","d","e","f","i","n","e","G","e","t","t","e","r","_","_">>,
      <<"_","_","d","e","f","i","n","e","S","e","t","t","e","r","_","_">>,
      <<"_","_","l","o","o","k","u","p","G","e","t","t","e","r","_","_">>,
      <<"_","_","l","o","o","k","u","p","S","e","t","t","e","r","_","_">> }

IsDigit(c) == \E i \in 1..Len(DigitChars) : DigitChars[i] = c

DigitVal(c) == (CHOOSE i \in 1..Len(DigitChars) : DigitChars[i] = c) - 1

\* 2^32 - 2, the largest array index, as a digit string
MaxArrayIndex == <<"4","2","9","4","9","6","7","2","9","4">>

\* a < b for digit strings of equal length
DigitsLess(a, b) ==
    \E i \in 1..Len(a) :
        /\ DigitVal(a[i]) < DigitVal(b[i])
        /\ \A k \in 1..(i-1) : a[k] = b[k]

\* a < b as numbers, for canonical digit strings
IndexLess(a, b) ==
    \/ Len(a) < Len(b)
    \/ Len(a) = Len(b) /\ DigitsLess(a, b)

\* the key is an array index: a canonical decimal numeral up to 2^32 - 2
IsArrayIndex(s) ==
    /\ Len(s) >= 1
    /\ \A i \in 1..Len(s) : IsDigit(s[i])
    /\ (Len(s) > 1 => s[1] # "0")
    /\ (IndexLess(s, MaxArrayIndex) \/ s = MaxArrayIndex)

\* Object.keys of an object whose own string keys were created in the order
\* `names`: the array indices ascending, then the other keys in creation order
ObjectKeys(names) ==
    SortSeq(SelectSeq(names, IsArrayIndex), IndexLess)
        \o SelectSeq(names, LAMBDA n : ~IsArrayIndex(n))

\* ------------------------------------------------------------------------
\* Tree builder (builder.js)
\* ------------------------------------------------------------------------

\* comment.tags.filter((t) => t.type === 'docs')[0].string.split(...)
parsePathNames(comment) ==
    LET docsTags == SelectSeq(comment.tags, LAMBDA t : t.type = "docs")
    IN  SplitDoubleSlash(docsTags[1].string)

\* { pageName }: a fresh page, with neither subPages nor sections yet
NewPage(pageName) ==
    [pageName |-> pageName, hasSubPages |-> FALSE, subPages |-> <<>>,
     hasSections |-> FALSE, sections |-> <<>>]

\* index of the first element of seq equal to v, 0 if none: what
\* seq.filter((x) => x === v)[0] finds
IndexOf(seq, v) ==
    IF \E i \in 1..Len(seq) : seq[i] = v
    THEN CHOOSE i \in 1..Len(seq) : seq[i] = v /\ \A k \in 1..(i-1) : seq[k] # v
    ELSE 0

PageNames(subPages) == [i \in 1..Len(subPages) |-> subPages[i].pageName]

SectionNames(sections) == [i \in 1..Len(sections) |-> sections[i].name]

DocsNames(trees) == [i \in 1..Len(trees) |-> trees[i].docsName]

\* getPage without the lookup by name: a page is pushed on every call
getPageAlwaysNew(docsTree, pageName) ==
    LET subPages == IF docsTree.hasSubPages THEN docsTree.subPages ELSE <<>>
        pushed == Append(subPages, NewPage(pageName))
    IN  [tree |-> [docsTree EXCEPT !.hasSubPages = TRUE, !.subPages = pushed],
         index |-> Len(pushed)]

\* getPage: the tree after the lookup (subPages created, the page pushed when
\* there was none of that name) and the index of the page it returns
getPage(docsTree, pageName) ==
    LET subPages == IF docsTree.hasSubPages THEN docsTree.subPages ELSE <<>>
        found == IndexOf(PageNames(subPages), pageName)
        pushed == IF found = 0 THEN Append(subPages, NewPage(pageName)) ELSE subPages
    IN  [tree |-> [docsTree EXCEPT !.hasSubPages = TRUE, !.subPages = pushed],
         index |-> IF found = 0 THEN Len(pushed) ELSE found]

\* pathNames[0]: undefined when pathNames is empty, and undefined used as a
\* property key is the string "undefined"
SectionKey(pathNames) ==
    IF Len(pathNames) = 0 THEN UndefinedKey ELSE pathNames[1]

\* the else branch of buildPages with the list assigned anew on every call
\* (sections[section] = [comment]) instead of created once and pushed to
pushCommentOverwrite(docsTree, section, comment) ==
    LET sections == IF docsTree.hasSections THEN docsTree.sections ELSE <<>>
        found == IndexOf(SectionNames(sections), section)
        ensured == IF found = 0
                   THEN Append(sections, [name |-> section, comments |-> <<>>])
                   ELSE sections
        at == IF found = 0 THEN Len(ensured) ELSE found
    IN  [docsTree EXCEPT
            !.hasSections = TRUE,
            !.sections = [ensured EXCEPT ![at].comments = <<comment>>]]

\* the else branch of buildPages without the push: the list is created when
\* there is none and the comment is left out
pushCommentListOnly(docsTree, section, comment) ==
    LET sections == IF docsTree.hasSections THEN docsTree.sections ELSE <<>>
        found == IndexOf(SectionNames(sections), section)
    IN  [docsTree EXCEPT
            !.hasSections = TRUE,
            !.sections = IF found = 0
                         THEN Append(sections, [name |-> section, comments |-> <<>>])
                         ELSE sections]

\* the else branch of buildPages: sections and sections[section] created
\* when falsy, then the comment pushed
pushComment(docsTree, section, comment) ==
    LET sections == IF docsTree.hasSections THEN docsTree.sections ELSE <<>>
        found == IndexOf(SectionNames(sections), section)
        ensured == IF found = 0
                   THEN Append(sections, [name |-> section, comments |-> <<>>])
                   ELSE sections
        at == IF found = 0 THEN Len(ensured) ELSE found
    IN  [docsTree EXCEPT
            !.hasSections = TRUE,
            !.sections = [ensured EXCEPT ![at].comments = Append(@, comment)]]

\* buildPages descending while any name is left (length > 0 for length > 1):
\* the section name becomes a page of its own
RECURSIVE buildPagesOneTooDeep(_, _, _)
buildPagesOneTooDeep(docsTree, pathNames, comment) ==
    IF Len(pathNames) > 0
    THEN LET got == getPage(docsTree, pathNames[1])
         IN  [got.tree EXCEPT
                !.subPages[got.index] = buildPagesOneTooDeep(@, Tail(pathNames), comment)]
    ELSE pushComment(docsTree, SectionKey(pathNames), comment)

RECURSIVE buildPages(_, _, _)
buildPages(docsTree, pathNames, comment) ==
    IF Len(pathNames) > 1
    THEN LET got == getPage(docsTree, pathNames[1])
         IN  [got.tree EXCEPT
                !.subPages[got.index] = buildPages(@, Tail(pathNames), comment)]
    ELSE pushComment(docsTree, SectionKey(pathNames), comment)

\* buildPages ends in a TypeError: `!docsTree.sections[section]` is false for
\* a key inherited from Object.prototype, so no list is created and `.push`
\* is called on the inherited value
RECURSIVE buildPagesThrows(_)
buildPagesThrows(pathNames) ==
    IF Len(pathNames) > 1
    THEN buildPagesThrows(Tail(pathNames))
    ELSE SectionKey(pathNames) \in ObjectPrototypeKeys

RECURSIVE assignCommentsToDocsTrees(_)
assignCommentsToDocsTrees(comments) ==
    IF comments = <<>> THEN <<>>
    ELSE LET n == Len(comments)
             docsTrees == assignCommentsToDocsTrees(SubSeq(comments, 1, n - 1))
             c == comments[n]
             docsName == parsePathNames(c)[1]
             found == IndexOf(DocsNames(docsTrees), docsName)
             pushed == IF found = 0
                       THEN Append(docsTrees,
                                [docsName |-> docsName, comments |-> <<>>,
                                 hasSubPages |-> FALSE, subPages |-> <<>>,
                                 hasSections |-> FALSE, sections |-> <<>>])
                       ELSE docsTrees
             at == IF found = 0 THEN Len(pushed) ELSE found
         IN  [pushed EXCEPT ![at].comments = Append(@, c)]

\* dt.comments.forEach((c) => buildPages(dt, parsePathNames(c).slice(1), c))
\* over the first k comments of dt
RECURSIVE buildDocsTree(_, _)
buildDocsTree(dt, k) ==
    IF k = 0 THEN dt
    ELSE buildPages(buildDocsTree(dt, k - 1), Tail(parsePathNames(dt.comments[k])),
                    dt.comments[k])

getDocsTrees(comments) ==
    LET docsTrees == assignCommentsToDocsTrees(comments)
    IN  [i \in 1..Len(docsTrees) |-> buildDocsTree(docsTrees[i], Len(docsTrees[i].comments))]

\* getDocsTrees ends in a TypeError instead of returning
getDocsTreesThrows(comments) ==
    \E i \in 1..Len(comments) : buildPagesThrows(Tail(parsePathNames(comments[i])))

\* ------------------------------------------------------------------------
\* Comment renderer (markdown.js)
\* ------------------------------------------------------------------------

Letters ==
    { UpperChars[i] : i \in 1..Len(UpperChars) } \cup { LowerChars[i] : i \in 1..Len(LowerChars) }

\* [a-zA-Z[\]] of typeRgx
IsTypeChar(c) == c \in Letters \cup {"[", "]"}

\* [a-zA-Z0-9-.[\]] of nameRgx
IsNameChar(c) == c \in Letters \cup {"-", ".", "[", "]"} \/ IsDigit(c)

\* what `.` does not match (no s flag), as far as the model's alphabet goes
LineTerminators == {"\n", "\r"}

\* the greatest index a greedy quantifier can stop at, 0 when there is none
Greediest(ends) ==
    IF ends = {} THEN 0 ELSE CHOOSE w \in ends : \A x \in ends : x <= w

\* the index after the one a quantifier stopped at, 0 when it did not match
After(w) == IF w = 0 THEN 0 ELSE w + 1

\* the first of two alternatives that matched
OrElse(a, b) == IF a # 0 THEN a ELSE b

\* descRgx ([^-].+) followed by $, tried at index q: one character that is
\* no hyphen, then at least one more, none of them a line terminator
IsDescAt(s, q) ==
    /\ q + 1 <= Len(s)
    /\ s[q] # "-"
    /\ \A i \in (q + 1)..Len(s) : s[i] \notin LineTerminators

\* \s+ followed by descRgx and $, tried after index p: the greedy \s+ gives
\* whitespace back until the rest matches; the index at which the
\* description starts, or 0 when there is no match
SpaceDescAfter(s, p) ==
    After(Greediest({ w \in (p + 1)..Len(s) :
                        /\ \A i \in (p + 1)..w : IsSpace(s[i])
                        /\ IsDescAt(s, w + 1) }))

\* (?:\s+-)? after index n, the whitespace running up to index j: the index
\* of its hyphen, or n when only the empty match is there
HyphenAt(s, n, j) ==
    IF j > n + 1 /\ j <= Len(s) /\ s[j] = "-" THEN j ELSE n

HyphenAfter(s, n) == HyphenAt(s, n, WsRunEnd(s, n + 1))

\* \s+ descRgx $ after the hyphen at index h of the optional group, 0 when
\* the group matched nothing (h = n)
SpaceDescAfterHyphen(s, n, h) ==
    IF h # n THEN SpaceDescAfter(s, h) ELSE 0

\* the rest of the regex after a name that ends at index n: with the
\* optional group first, without it when that fails
DescStartAfterName(s, n) ==
    OrElse(SpaceDescAfterHyphen(s, n, HyphenAfter(s, n)), SpaceDescAfter(s, n))

\* the match whose name runs from index q to index n, none when n = 0
NameDescAt(s, q, n) ==
    IF n = 0 THEN [matched |-> FALSE, name |-> <<>>, desc |-> <<>>]
    ELSE [matched |-> TRUE,
          name |-> SubSeq(s, q, n),
          desc |-> From(s, DescStartAfterName(s, n))]

\* nameRgx \s+ descRgx $ tried at index q: the greedy name gives characters
\* back until the rest matches
matchNameDesc(s, q) ==
    NameDescAt(s, q, Greediest({ n \in q..Len(s) :
                                    /\ \A i \in q..n : IsNameChar(s[i])
                                    /\ DescStartAfterName(s, n) # 0 }))

\* string.match(descTagRgx)
matchDescTag(s) == matchNameDesc(s, 1)

\* the brace that closes {type}: index j, where the type characters that
\* start at index 2 end, when a brace is there and the type is not empty
CloseBraceAt(s, j) ==
    IF j > 2 /\ j <= Len(s) /\ s[j] = "}" THEN j ELSE 0

\* ^ typeRgx: the index of the brace that closes {type} at the start of s,
\* or 0 when s does not start with it
TypeEnd(s) ==
    IF Len(s) >= 1 /\ s[1] = "{"
    THEN CloseBraceAt(s, CHOOSE j \in 2..(Len(s) + 1) :
                            /\ \A i \in 2..(j - 1) : IsTypeChar(s[i])
                            /\ j <= Len(s) => ~IsTypeChar(s[j]))
    ELSE 0

\* the match of paramTagRgx made of the type and of a match of the rest
WithType(type, m) ==
    [matched |-> m.matched,
     type |-> IF m.matched THEN type ELSE <<>>,
     name |-> m.name,
     desc |-> m.desc]

\* paramTagRgx after {type} closed at index t, the whitespace behind it
\* running up to index q (a name holds no whitespace, so \s+ takes the run)
ParamMatchAt(s, t, q) ==
    IF t = 0 \/ q <= t + 1
    THEN [matched |-> FALSE, type |-> <<>>, name |-> <<>>, desc |-> <<>>]
    ELSE WithType(SubSeq(s, 2, t - 1), matchNameDesc(s, q))

ParamMatchAfter(s, t) == ParamMatchAt(s, t, WsRunEnd(s, t + 1))

\* string.match(paramTagRgx)
matchParamTag(s) == ParamMatchAfter(s, TypeEnd(s))

\* the match of returnsTagRgx whose description starts at index q
ReturnsMatchAt(s, t, q) ==
    IF q = 0 THEN [matched |-> FALSE, type |-> <<>>, desc |-> <<>>]
    ELSE [matched |-> TRUE, type |-> SubSeq(s, 2, t - 1), desc |-> From(s, q)]

ReturnsMatchAfter(s, t) ==
    ReturnsMatchAt(s, t, IF t = 0 THEN 0 ELSE SpaceDescAfter(s, t))

\* string.match(returnsTagRgx)
matchReturnsTag(s) == ReturnsMatchAfter(s, TypeEnd(s))

\* tags.filter((t) => t.type === type)
TagsOfType(tags, type) == SelectSeq(tags, LAMBDA t : t.type = type)

\* `.string` of an undefined tag, or `[1]` of a null match: a TypeError
NoDescMatch(found) ==
    found = <<>> \/ ~matchDescTag(found[1].string).matched

getCommentNameAndDescThrows(comment) ==
    NoDescMatch(TagsOfType(comment.tags, "desc"))

\* `### ${match[1]}\n${match[2]}\n<br><br>\n`
NameAndDesc(match) ==
    <<"#","#","#"," ">> \o match.name \o <<"\n">> \o match.desc
        \o <<"\n","<","b","r",">","<","b","r",">","\n">>

getCommentNameAndDesc(comment) ==
    NameAndDesc(matchDescTag(TagsOfType(comment.tags, "desc")[1].string))

\* `#### ${heading}\nName | Type | Description\n--- | --- | ---\n`
getCommentTableHead(heading) ==
    <<"#","#","#","#"," ">> \o heading
        \o <<"\n","N","a","m","e"," ","|"," ","T","y","p","e"," ","|"," ",
             "D","e","s","c","r","i","p","t","i","o","n","\n",
             "-","-","-"," ","|"," ","-","-","-"," ","|"," ","-","-","-","\n">>

\* the backquote character (U+0060), which a TLA+ string cannot hold
Backquote == "U+0060"

\* '' for a null match, else match[2], " | ", match[1] in backquotes, " | ",
\* match[3] and a line feed
RowOf(match) ==
    IF ~match.matched THEN <<>>
    ELSE match.name \o <<" ","|"," ",Backquote>> \o match.type \o <<Backquote," ","|"," ">>
            \o match.desc \o <<"\n">>

\* one row of getCommentTableRows
tableRow(string) == RowOf(matchParamTag(string))

\* rows.join('')
RECURSIVE joinRows(_)
joinRows(tags) ==
    IF tags = <<>> THEN <<>> ELSE tableRow(tags[1].string) \o joinRows(Tail(tags))

\* null without a tag, else the rows and one line feed
RowsOf(tags) ==
    IF tags = <<>> THEN [null |-> TRUE, rows |-> <<>>]
    ELSE [null |-> FALSE, rows |-> joinRows(tags) \o <<"\n">>]

getCommentTableRows(comment, tagType) == RowsOf(TagsOfType(comment.tags, tagType))

\* '' for a null match, else "#### Returns\n", match[1] in backquotes, a
\* space, match[2] and "\n<br><br>\n"
ReturnsOf(match) ==
    IF ~match.matched THEN <<>>
    ELSE <<"#","#","#","#"," ","R","e","t","u","r","n","s","\n",Backquote>> \o match.type
            \o <<Backquote," ">> \o match.desc
            \o <<"\n","<","b","r",">","<","b","r",">","\n">>

\* '' without a returns tag, else what the first one gives
ReturnsOfFirst(found) ==
    IF found = <<>> THEN <<>> ELSE ReturnsOf(matchReturnsTag(found[1].string))

getCommentReturns(comment) == ReturnsOfFirst(TagsOfType(comment.tags, "returns"))

\* what getCommentString appends for the rows of one tag family: nothing
\* when getCommentTableRows gave null (the rows string is never empty
\* otherwise), else the table head and the rows
TableText(heading, got) ==
    IF got.null THEN <<>> ELSE getCommentTableHead(heading) \o got.rows

tableOf(comment, tagType, heading) ==
    TableText(heading, getCommentTableRows(comment, tagType))

getCommentStringThrows(comment) == getCommentNameAndDescThrows(comment)

\* a getCommentString that puts the Data table before the Params table
getCommentStringDataFirst(comment) ==
    getCommentNameAndDesc(comment)
        \o tableOf(comment, "data", <<"D","a","t","a">>)
        \o tableOf(comment, "param", <<"P","a","r","a","m","s">>)
        \o getCommentReturns(comment)

\* getCommentString: heading, Params table, Data table, Returns
getCommentString(comment) ==
    getCommentNameAndDesc(comment)
        \o tableOf(comment, "param", <<"P","a","r","a","m","s">>)
        \o tableOf(comment, "data", <<"D","a","t","a">>)
        \o getCommentReturns(comment)

\* ------------------------------------------------------------------------
\* Page text (markdown.js)
\* ------------------------------------------------------------------------

\* getMarkdownString, one item per piece it appends to markdownString: the
\* `## name\n\n` heading of each section in Object.keys order, each followed
\* by one item per comment of the section, the fragment getCommentString
\* renders for it
RECURSIVE sectionsText(_, _, _)
sectionsText(sections, keys, k) ==
    IF k > Len(keys) THEN <<>>
    ELSE LET e == sections[IndexOf(SectionNames(sections), keys[k])]
         IN  <<[h2 |-> e.name, text |-> <<"#","#"," ">> \o e.name \o <<"\n","\n">>]>>
                \o [i \in 1..Len(e.comments) |->
                        [comment |-> e.comments[i].id,
                         text |-> getCommentString(e.comments[i])]]
                \o sectionsText(sections, keys, k + 1)

getMarkdownString(docsTree) ==
    sectionsText(docsTree.sections,
                 ObjectKeys(SectionNames(docsTree.sections)),
                 1)

\* Object.keys(undefined) when the node has no sections, or the first
\* comment that getCommentString throws on: a TypeError out of getMarkdownString
getMarkdownStringThrows(docsTree) ==
    \/ ~docsTree.hasSections
    \/ \E s \in 1..Len(docsTree.sections) :
         \E i \in 1..Len(docsTree.sections[s].comments) :
            getCommentStringThrows(docsTree.sections[s].comments[i])

\* markdownString: the pieces in the order they were appended
RECURSIVE markdownText(_)
markdownText(items) ==
    IF items = <<>> THEN <<>> ELSE items[1].text \o markdownText(Tail(items))

\* ------------------------------------------------------------------------
\* Paths (node's path module on a POSIX host; the names of the model hold
\* no '.', no "//" and no line break, so path.join has nothing to normalise)
\* ------------------------------------------------------------------------

\* path.join(a, b): empty segments are skipped
PathJoin(a, b) ==
    IF b = <<>> THEN (IF a = <<>> THEN <<".">> ELSE a)
    ELSE IF a = <<>> THEN b
    ELSE a \o <<"/">> \o b

\* process.cwd()
Cwd == <<"/","w">>

\* options.get('out') with its './' resolved away: "docs_src"
OutputDir == <<"d","o","c","s","_","s","r","c">>

\* path.resolve(process.cwd(), outputDir)
OutputPath == PathJoin(Cwd, OutputDir)

DocsWord == <<"d","o","c","s">>

docsPathOf(docsName) == PathJoin(OutputPath, docsName)

markdownPathOf(docsName) == PathJoin(docsPathOf(docsName), DocsWord)

mkdocsYmlPathOf(docsName) ==
    PathJoin(docsPathOf(docsName), <<"m","k","d","o","c","s",".","y","m","l">>)

\* q is p or lies below p
IsUnder(q, p) ==
    \/ q = p
    \/ Len(q) > Len(p) /\ SubSeq(q, 1, Len(p) + 1) = p \o <<"/">>

\* p and every directory above it
DirChain(p) ==
    {p} \cup { SubSeq(p, 1, i - 1) : i \in { j \in 2..Len(p) : p[j] = "/" } }

\* the directory a path lies in
DirName(p) ==
    LET slashes == { j \in 2..Len(p) : p[j] = "/" }
    IN  IF slashes = {} THEN <<>>
        ELSE SubSeq(p, 1, (CHOOSE j \in slashes : \A k \in slashes : k <= j) - 1)

\* ------------------------------------------------------------------------
\* Tree renderer / manifest writer (writer.js)
\* ------------------------------------------------------------------------

\* an indent of two spaces a level
IndentByTwo(n) == [i \in 1..(2 * n) |-> " "]

RECURSIVE Indent(_)
Indent(n) == IF n = 0 THEN <<>> ELSE <<" "," "," "," ">> \o Indent(n - 1)

newLine(string, indent) == <<"\n">> \o Indent(indent) \o string

\* a formatFilename that keeps the case of the name
formatFilenameKeepCase(pageName) == ReplaceWsRuns(pageName)

formatFilename(pageName) == ReplaceWsRuns(toLowerCase(pageName))

\* the same replace with a lazy .*? : the path is cut at its first "docs"
StripToFirstDocs(writePath) ==
    LET at == { i \in 1..(Len(writePath) - 3) : SubSeq(writePath, i, i + 3) = DocsWord }
    IN  IF at = {} THEN writePath
        ELSE LET first == CHOOSE i \in at : \A k \in at : i <= k
                 rest == From(writePath, first + 4)
             IN  IF rest # <<>> /\ rest[1] \in {"/", "\\"} THEN Tail(rest) ELSE rest

\* writePath.replace(/^.*docs[/\\]?(.*)$/u, '$1'): the greedy .* runs to the
\* last "docs" of the path; without any "docs" the path is left as it is
StripToDocs(writePath) ==
    LET at == { i \in 1..(Len(writePath) - 3) : SubSeq(writePath, i, i + 3) = DocsWord }
    IN  IF at = {} THEN writePath
        ELSE LET last == CHOOSE i \in at : \A k \in at : k <= i
                 rest == From(writePath, last + 4)
             IN  IF rest # <<>> /\ rest[1] \in {"/", "\\"} THEN Tail(rest) ELSE rest

\* replace(/\\/gu, '/')
SlashesForward(s) == [i \in 1..Len(s) |-> IF s[i] = "\\" THEN "/" ELSE s[i]]

\* the path written to the manifest for a file named fileName in writePath
relWritePathOf(writePath, fileName) ==
    SlashesForward(PathJoin(StripToDocs(writePath), fileName))

\* one write promise: the page it is for (the page names from the document
\* root down), the directory and file it writes, the path it put into the
\* manifest, and how far it is:
\*   "mkdirp"     mkdirp(writePath) issued, its callback not yet run
\*   "writeFile"  fs.writeFile issued, its callback not yet run
\*   "resolved" / "rejected"
\* The executor calls getMarkdownString first: when that throws, the promise
\* is rejected at once and neither mkdirp nor the write is issued.
PageWrite(pages, writePath, fileName, docsTree) ==
    IF getMarkdownStringThrows(docsTree)
    THEN [kind |-> "page", pages |-> pages, writePath |-> writePath,
          filePath |-> PathJoin(writePath, fileName),
          relWritePath |-> relWritePathOf(writePath, fileName),
          text |-> <<>>,
          st |-> "rejected"]
    ELSE [kind |-> "page", pages |-> pages, writePath |-> writePath,
          filePath |-> PathJoin(writePath, fileName),
          relWritePath |-> relWritePathOf(writePath, fileName),
          text |-> markdownText(getMarkdownString(docsTree)),
          st |-> "mkdirp"]

\* writePages: what it writes to the stream and the promises it pushes
RECURSIVE writePages(_, _, _, _)
RECURSIVE writeSubPages(_, _, _, _, _)
writePages(docsTree, writePath, indent, above) ==
    LET head == newLine(<<"-"," ","'">> \o docsTree.pageName \o <<"'",":">>, indent)
        pages == Append(above, docsTree.pageName)
    IN  IF docsTree.hasSubPages
        THEN LET subDirPath == PathJoin(writePath, formatFilename(docsTree.pageName))
                 sub == writeSubPages(docsTree.subPages, 1, subDirPath, indent + 1, pages)
             IN  [chunks |-> <<head>> \o sub.chunks, writes |-> sub.writes]
        ELSE LET fileName == formatFilename(docsTree.pageName) \o <<".","m","d">>
                 w == PageWrite(pages, writePath, fileName, docsTree)
             IN  [chunks |-> <<head, <<" ","'">> \o w.relWritePath \o <<"'">> >>,
                  writes |-> <<w>>]

\* subPages.forEach((sp) => writePages(sp, ...)) from the k-th sub-page on
writeSubPages(subPages, k, writePath, indent, above) ==
    IF k > Len(subPages) THEN [chunks |-> <<>>, writes |-> <<>>]
    ELSE LET one == writePages(subPages[k], writePath, indent, above)
             rest == writeSubPages(subPages, k + 1, writePath, indent, above)
         IN  [chunks |-> one.chunks \o rest.chunks, writes |-> one.writes \o rest.writes]

\* the promise writeMkdocs makes for index.md: fs.writeFile is issued at once
IndexWrite(docsTree, markdownPath) ==
    [kind |-> "index", pages |-> <<>>, writePath |-> markdownPath,
     filePath |-> PathJoin(markdownPath, <<"i","n","d","e","x",".","m","d">>),
     relWritePath |-> <<"i","n","d","e","x",".","m","d">>,
     text |-> <<"#"," ">> \o docsTree.docsName,
     st |-> "writeFile"]

HomeLine ==
    newLine(<<"-"," ","H","o","m","e",":"," ","'","i","n","d","e","x",".","m","d","'">>, 0)

\* writeMkdocs: `docsTree.subPages.forEach` is a TypeError when the document
\* has no subPages; by then index.md is being written and the Home line is
\* in the stream
writeMkdocs(docsTree, markdownPath) ==
    IF docsTree.hasSubPages
    THEN LET sub == writeSubPages(docsTree.subPages, 1, markdownPath, 0, <<>>)
         IN  [threw |-> FALSE,
              chunks |-> <<HomeLine>> \o sub.chunks,
              writes |-> <<IndexWrite(docsTree, markdownPath)>> \o sub.writes]
    ELSE [threw |-> TRUE,
          chunks |-> <<HomeLine>>,
          writes |-> <<IndexWrite(docsTree, markdownPath)>>]

\* ------------------------------------------------------------------------
\* State
\* ------------------------------------------------------------------------

VARIABLES
    comments,   \* the comments getDoxdownComments returned, in order
    phase,      \* "init", "built" (getDocsTrees returned), "running"
                \* (generateDocs returned, callbacks left), "crashed"
    crash,      \* the uncaught exception that ended the process, if any
    docsTrees,  \* what getDocsTrees returned
    step,       \* per document: "rimraf", "mkdirp" (callback pending), "started"
    stream,     \* per document: the mkdocs.yml write stream
    writes,     \* per document: the promises array of writeMkdocs
    join,       \* per document: the Promise.all promise and its handlers
    reports,    \* the complete / failed lines logged, in order
    fsDirs,     \* the directories that exist
    fsFiles,    \* the files that exist, each with the write that filled it
    fsErrors,   \* how many filesystem operations have failed so far
    input,      \* the argument of a function applied on its own
    output      \* what the function returned or threw

vars ==
    <<comments, phase, crash, docsTrees, step, stream, writes, join, reports,
      fsDirs, fsFiles, fsErrors, input, output>>

Docs == 1..Len(docsTrees)

NoCrash == [cause |-> "none", at |-> "none", doc |-> 0]

\* a comment as the external parser hands it over: its tags in order, here
\* the directive and a description "f - do"
Comment(id, directive) ==
    [id |-> id,
     tags |-> <<[type |-> "docs", string |-> directive],
                [type |-> "desc", string |-> <<"f"," ","-"," ","d","o">>]>>]

\* the directives given to the tree builder alone
BuildDirectives ==
    { <<"A">>,                                                  \* "A"
      <<"A"," ","/","/"," ","S">>,                              \* "A // S"
      <<"A"," ","/","/"," ","P"," ","/","/"," ","S">>,          \* "A // P // S"
      <<"A"," "," ","/","/","P","/","/","\t","T">>,             \* "A  //P//\tT"
      <<"A"," ","/","/"," ","Q"," ","/","/"," ","P"," ","/","/"," ","S">>,
                                                                \* "A // Q // P // S"
      <<"B"," ","/","/"," ","P"," ","/","/"," ","S">>,          \* "B // P // S"
      <<"A"," ","/","/"," ","2">>,                              \* "A // 2"
      <<"A"," ","/","/"," ","1">>,                              \* "A // 1"
      <<"B">>,                                                  \* "B"
      <<"A"," ","/","/"," ","c","o","n","s","t","r","u","c","t","o","r">>,
                                                                \* "A // constructor"
      <<"A"," ","/","/"," ","u","n","d","e","f","i","n","e","d">> }
                                                                \* "A // undefined"

\* the directives given to the whole pipeline
RunDirectives ==
    { <<"A"," ","/","/"," ","S">>,                              \* "A // S"
      <<"A"," ","/","/"," ","P"," ","/","/"," ","S">>,          \* "A // P // S"
      <<"A"," ","/","/"," ","Q"," ","/","/"," ","T">>,          \* "A // Q // T"
      <<"A"," ","/","/"," ","D","o","c","s"," ","/","/"," ","G"," ","/","/"," ","S">>,
                                                                \* "A // Docs // G // S"
      <<"B"," ","/","/"," ","P"," ","/","/"," ","S">> }         \* "B // P // S"

\* directives whose document names lie in one another's directory: "A/B" is
\* one segment (a single slash does not separate), the empty name is the
\* segment before a leading "//"
NameDirectives ==
    { <<"A"," ","/","/"," ","P"," ","/","/"," ","S">>,          \* "A // P // S"
      <<"A","/","B"," ","/","/"," ","P"," ","/","/"," ","S">>,  \* "A/B // P // S"
      <<"/","/"," ","P"," ","/","/"," ","S">> }                 \* "// P // S"

InitWith(directives, maxLen) ==
    /\ \E n \in 0..maxLen :
         \E f \in [1..n -> directives] :
            comments = [i \in 1..n |-> Comment(i, f[i])]
    /\ phase = "init"
    /\ crash = NoCrash
    /\ docsTrees = <<>>
    /\ step = <<>>
    /\ stream = <<>>
    /\ writes = <<>>
    /\ join = <<>>
    /\ reports = <<>>
    /\ fsDirs = DirChain(Cwd)
    /\ fsFiles = {}
    /\ fsErrors = 0
    /\ input = <<>>
    /\ output = <<>>

Init == InitWith(RunDirectives, MaxComments)

InitBuild == InitWith(BuildDirectives, MaxBuildComments)

InitNames == InitWith(NameDirectives, MaxComments)

\* directives whose page names differ by case or by a run of whitespace
\* only, and one that names another page
TieDirectives ==
    { <<"A"," ","/","/"," ","P"," ","q"," ","/","/"," ","S">>,                \* "A // P q // S"
      <<"A"," ","/","/"," ","p"," ","q"," ","/","/"," ","T">>,                \* "A // p q // T"
      <<"A"," ","/","/"," ","P"," "," ","q"," ","/","/"," ","U">>,            \* "A // P  q // U"
      <<"A"," ","/","/"," ","P"," ","/","/"," ","S">> }                       \* "A // P // S"

InitTies == InitWith(TieDirectives, MaxComments)

\* the directives of a run over the output of an earlier run
StaleDirectives ==
    { <<"A"," ","/","/"," ","P"," ","/","/"," ","S">>,          \* "A // P // S"
      <<"A"," ","/","/"," ","Q"," ","/","/"," ","P"," ","/","/"," ","S">>,
                                                                \* "A // Q // P // S"
      <<"B"," ","/","/"," ","P"," ","/","/"," ","S">> }         \* "B // P // S"

\* what an earlier run left of document "A": its directories, its manifest,
\* index.md and a page file old.md (doc 0: written by no document of this run)
StaleDirs == DirChain(markdownPathOf(<<"A">>))

StaleFiles ==
    { [path |-> mkdocsYmlPathOf(<<"A">>), doc |-> 0, write |-> 0],
      [path |-> PathJoin(markdownPathOf(<<"A">>), <<"i","n","d","e","x",".","m","d">>),
       doc |-> 0, write |-> 0],
      [path |-> PathJoin(markdownPathOf(<<"A">>), <<"o","l","d",".","m","d">>),
       doc |-> 0, write |-> 0] }

InitStale ==
    /\ \E n \in 0..MaxComments :
         \E f \in [1..n -> StaleDirectives] :
            comments = [i \in 1..n |-> Comment(i, f[i])]
    /\ phase = "init"
    /\ crash = NoCrash
    /\ docsTrees = <<>>
    /\ step = <<>>
    /\ stream = <<>>
    /\ writes = <<>>
    /\ join = <<>>
    /\ reports = <<>>
    /\ fsDirs = DirChain(Cwd) \cup StaleDirs
    /\ fsFiles = StaleFiles
    /\ fsErrors = 0
    /\ input = <<>>
    /\ output = <<>>

\* the tags of one type with the given strings, in order
TagsOf(type, strings) == [i \in 1..Len(strings) |-> [type |-> type, string |-> strings[i]]]

\* the sequences of up to n elements of S
SeqsUpTo(S, n) == UNION { [1..k -> S] : k \in 0..n }

\* directives for comments of which some do not render, with sections that
\* are named by numbers
FaultyDirectives ==
    { <<"A"," ","/","/"," ","P"," ","/","/"," ","2">>,          \* "A // P // 2"
      <<"A"," ","/","/"," ","P"," ","/","/"," ","1">>,          \* "A // P // 1"
      <<"A"," ","/","/"," ","Q"," ","/","/"," ","S">> }         \* "A // Q // S"

\* a comment with the given directive and desc tags
CommentWith(id, directive, descStrings) ==
    [id |-> id,
     tags |-> <<[type |-> "docs", string |-> directive]>> \o TagsOf("desc", descStrings)]

\* comments with the description "f - do" or with no desc tag at all
InitFaulty ==
    /\ \E n \in 0..MaxComments :
         \E f \in [1..n -> FaultyDirectives] :
            \E g \in [1..n -> SeqsUpTo({<<"f"," ","-"," ","d","o">>}, 1)] :
                comments = [i \in 1..n |-> CommentWith(i, f[i], g[i])]
    /\ phase = "init"
    /\ crash = NoCrash
    /\ docsTrees = <<>>
    /\ step = <<>>
    /\ stream = <<>>
    /\ writes = <<>>
    /\ join = <<>>
    /\ reports = <<>>
    /\ fsDirs = DirChain(Cwd)
    /\ fsFiles = {}
    /\ fsErrors = 0
    /\ input = <<>>
    /\ output = <<>>

\* the pipeline is not run: a function is applied on its own
NoRun ==
    /\ comments = <<>>
    /\ phase = "none"
    /\ crash = NoCrash
    /\ docsTrees = <<>>
    /\ step = <<>>
    /\ stream = <<>>
    /\ writes = <<>>
    /\ join = <<>>
    /\ reports = <<>>
    /\ fsDirs = {}
    /\ fsFiles = {}
    /\ fsErrors = 0

\* the strings of desc tags: "f - do" and "f do" match descTagRgx, "f" (no
\* description) and "f - d" (a description of one character) do not
DescStrings ==
    { <<"f"," ","-"," ","d","o">>, <<"f"," ","d","o">>, <<"f">>, <<"f"," ","-"," ","d">> }

\* the strings of param and data tags: "{T} x - ok" and "{U[]} y no" match
\* paramTagRgx, "x - ok" (no type) does not
ParamStrings ==
    { <<"{","T","}"," ","x"," ","-"," ","o","k">>,
      <<"{","U","[","]","}"," ","y"," ","n","o">>,
      <<"x"," ","-"," ","o","k">> }

\* the strings of returns tags: "{T} ok" matches returnsTagRgx, "ok" does not
ReturnsStrings == { <<"{","T","}"," ","o","k">>, <<"o","k">> }

\* a comment given to getCommentString: at most one desc tag, up to MaxTags
\* param tags, up to MaxTags data tags, at most one returns tag
InitRender ==
    /\ NoRun
    /\ \E d \in SeqsUpTo(DescStrings, 1), r \in SeqsUpTo(ReturnsStrings, 1) :
         \E ps \in SeqsUpTo(ParamStrings, MaxTags), ds \in SeqsUpTo(ParamStrings, MaxTags) :
            input = [id |-> 1,
                     tags |-> TagsOf("desc", d) \o TagsOf("param", ps)
                                \o TagsOf("data", ds) \o TagsOf("returns", r)]
    /\ output = [called |-> FALSE]

\* the tags a comment is made of when its tags come in any order: a
\* description, a well-formed and a malformed param tag, a data tag, a
\* well-formed and a malformed returns tag
OrderTags ==
    { [type |-> "desc", string |-> <<"f"," ","-"," ","d","o">>],
      [type |-> "param", string |-> <<"{","T","}"," ","x"," ","-"," ","o","k">>],
      [type |-> "param", string |-> <<"x"," ","-"," ","o","k">>],
      [type |-> "data", string |-> <<"{","U","[","]","}"," ","y"," ","n","o">>],
      [type |-> "returns", string |-> <<"{","T","}"," ","o","k">>],
      [type |-> "returns", string |-> <<"o","k">>] }

\* a comment given to getCommentString: up to MaxOrderTags of these tags, in
\* any order and with repetitions
InitTagOrder ==
    /\ NoRun
    /\ \E tags \in SeqsUpTo(OrderTags, MaxOrderTags) : input = [id |-> 1, tags |-> tags]
    /\ output = [called |-> FALSE]

\* the characters of the directives given to parsePathNames
DirectiveChars == {"A", "b", " ", "/"}

\* the directive strings given to parsePathNames: "A // B // C", "A", and
\* every string of up to MaxDirectiveLen characters; the external parser
\* hands a tag string over without whitespace at its ends
ParseDirectives ==
    { <<"A"," ","/","/"," ","B"," ","/","/"," ","C">>, <<"A">> }
        \cup { s \in SeqsUpTo(DirectiveChars, MaxDirectiveLen) :
                    s # <<>> => ~IsSpace(s[1]) /\ ~IsSpace(s[Len(s)]) }

\* a comment given to parsePathNames: its docs tag alone, or after a desc
\* tag and before a second docs tag "Z // Y"
InitParse ==
    /\ NoRun
    /\ \E s \in ParseDirectives :
         \/ input = [id |-> 1, tags |-> <<[type |-> "docs", string |-> s]>>]
         \/ input = [id |-> 1,
                     tags |-> <<[type |-> "desc", string |-> <<"f"," ","-"," ","d","o">>],
                                [type |-> "docs", string |-> s],
                                [type |-> "docs", string |-> <<"Z"," ","/","/"," ","Y">>]>>]
    /\ output = [called |-> FALSE]

\* a page name given to formatFilename
NameChars == {"A", "b", " ", "\t", "-"}

InitFilename ==
    /\ NoRun
    /\ input \in SeqsUpTo(NameChars, MaxNameLen)
    /\ output = [called |-> FALSE]

\* getCommentString(comment): the fragment or the TypeError, and what
\* getCommentTableRows gave it for the two tag families
Render ==
    /\ ~output.called
    /\ output' = IF getCommentStringThrows(input)
                 THEN [called |-> TRUE, threw |-> TRUE, value |-> <<>>,
                       params |-> getCommentTableRows(input, "param"),
                       data |-> getCommentTableRows(input, "data")]
                 ELSE [called |-> TRUE, threw |-> FALSE, value |-> getCommentString(input),
                       params |-> getCommentTableRows(input, "param"),
                       data |-> getCommentTableRows(input, "data")]
    /\ UNCHANGED <<comments, phase, crash, docsTrees, step, stream, writes, join,
                   reports, fsDirs, fsFiles, fsErrors, input>>

\* parsePathNames(comment)
Parse ==
    /\ ~output.called
    /\ output' = [called |-> TRUE, value |-> parsePathNames(input)]
    /\ UNCHANGED <<comments, phase, crash, docsTrees, step, stream, writes, join,
                   reports, fsDirs, fsFiles, fsErrors, input>>

\* formatFilename(pageName), and formatFilename of what it returned
Format ==
    /\ ~output.called
    /\ output' = [called |-> TRUE,
                  once |-> formatFilename(input),
                  twice |-> formatFilename(formatFilename(input))]
    /\ UNCHANGED <<comments, phase, crash, docsTrees, step, stream, writes, join,
                   reports, fsDirs, fsFiles, fsErrors, input>>

\* ------------------------------------------------------------------------
\* index.js: getDocsTrees(comments), then generateDocs(docsTrees)
\* ------------------------------------------------------------------------

Build ==
    /\ phase = "init"
    /\ IF getDocsTreesThrows(comments)
       THEN /\ phase' = "crashed"
            /\ crash' = [cause |-> "TypeError", at |-> "getDocsTrees", doc |-> 0]
            /\ UNCHANGED docsTrees
       ELSE /\ phase' = "built"
            /\ docsTrees' = getDocsTrees(comments)
            /\ UNCHANGED crash
    /\ UNCHANGED <<comments, step, stream, writes, join, reports, fsDirs, fsFiles, fsErrors,
                 input, output>>

\* generateDocs that does not wait for rimraf: mkdirp is issued at once
GenerateDocsNoCleanup ==
    /\ phase = "built"
    /\ phase' = "running"
    /\ step' = [d \in Docs |-> "mkdirp"]
    /\ stream' = [d \in Docs |-> [st |-> "none", chunks |-> <<>>, ends |-> 0]]
    /\ writes' = [d \in Docs |-> <<>>]
    /\ join' = [d \in Docs |-> [state |-> "none", reason |-> 0, handled |-> FALSE]]
    /\ UNCHANGED <<comments, crash, docsTrees, reports, fsDirs, fsFiles, fsErrors,
                 input, output>>

\* generateDocs: one rimraf issued per document, nothing else before it returns
GenerateDocs ==
    /\ phase = "built"
    /\ phase' = "running"
    /\ step' = [d \in Docs |-> "rimraf"]
    /\ stream' = [d \in Docs |-> [st |-> "none", chunks |-> <<>>, ends |-> 0]]
    /\ writes' = [d \in Docs |-> <<>>]
    /\ join' = [d \in Docs |-> [state |-> "none", reason |-> 0, handled |-> FALSE]]
    /\ UNCHANGED <<comments, crash, docsTrees, reports, fsDirs, fsFiles, fsErrors,
                 input, output>>

\* ------------------------------------------------------------------------
\* Filesystem callbacks
\* ------------------------------------------------------------------------

\* the environment may let an operation fail while its budget lasts
MayFail == fsErrors < MaxFsErrors

Failed(ok) == IF ok THEN fsErrors ELSE fsErrors + 1

\* rimraf(path.join(outputDir, docsName), {}, () => mkdirp(markdownPath, ...)):
\* the callback takes no error
RimrafCb(d) ==
    /\ phase = "running"
    /\ step[d] = "rimraf"
    /\ \E ok \in BOOLEAN :
        /\ ok \/ MayFail
        /\ fsErrors' = Failed(ok)
        /\ LET target == docsPathOf(docsTrees[d].docsName)
           IN  IF ok
               THEN /\ fsDirs' = { q \in fsDirs : ~IsUnder(q, target) }
                    /\ fsFiles' = { f \in fsFiles : ~IsUnder(f.path, target) }
               ELSE UNCHANGED <<fsDirs, fsFiles>>
    /\ step' = [step EXCEPT ![d] = "mkdirp"]
    /\ UNCHANGED <<comments, phase, crash, docsTrees, stream, writes, join, reports,
                 input, output>>

\* Promise.all over promises of which some may be rejected from the start
JoinOf(ws) ==
    IF \E k \in 1..Len(ws) : ws[k].st = "rejected"
    THEN [state |-> "rejected",
          reason |-> CHOOSE k \in 1..Len(ws) :
                        ws[k].st = "rejected" /\ \A j \in 1..(k-1) : ws[j].st # "rejected",
          handled |-> FALSE]
    ELSE [state |-> "pending", reason |-> 0, handled |-> FALSE]

\* mkdirp(markdownPath, () => { createWriteStream; write; write; writeMkdocs(...).then })
\* the callback takes no error either
MkdirpCb(d) ==
    /\ phase = "running"
    /\ step[d] = "mkdirp"
    /\ \E ok \in BOOLEAN :
        /\ ok \/ MayFail
        /\ fsErrors' = Failed(ok)
        /\ fsDirs' = IF ok THEN fsDirs \cup DirChain(markdownPathOf(docsTrees[d].docsName))
                     ELSE fsDirs
    /\ step' = [step EXCEPT ![d] = "started"]
    /\ LET dt == docsTrees[d]
           got == writeMkdocs(dt, markdownPathOf(dt.docsName))
           head == << <<"s","i","t","e","_","n","a","m","e",":"," ">> \o dt.docsName,
                      newLine(<<"p","a","g","e","s",":">>, 0) >>
       IN  /\ stream' = [stream EXCEPT ![d] =
                            [st |-> "opening", chunks |-> head \o got.chunks, ends |-> 0]]
           /\ writes' = [writes EXCEPT ![d] = got.writes]
           /\ IF got.threw
              THEN /\ phase' = "crashed"
                   /\ crash' = [cause |-> "TypeError", at |-> "writeMkdocs", doc |-> d]
                   /\ UNCHANGED join
              ELSE /\ join' = [join EXCEPT ![d] = JoinOf(got.writes)]
                   /\ UNCHANGED <<phase, crash>>
    /\ UNCHANGED <<comments, docsTrees, reports, fsFiles,
                 input, output>>

\* the stream opens mkdocs.yml; no 'error' listener is attached to it, so a
\* failed open is an unhandled 'error' event, which ends the process
StreamOpenCb(d) ==
    /\ phase = "running"
    /\ stream[d].st = "opening"
    /\ LET path == mkdocsYmlPathOf(docsTrees[d].docsName)
       IN  \E ok \in BOOLEAN :
            /\ ok => DirName(path) \in fsDirs
            /\ ~ok /\ DirName(path) \in fsDirs => MayFail
            /\ fsErrors' = IF ~ok /\ DirName(path) \in fsDirs THEN fsErrors + 1 ELSE fsErrors
            /\ IF ok
               THEN /\ stream' = [stream EXCEPT ![d].st = "open"]
                    /\ fsFiles' = { f \in fsFiles : f.path # path }
                                    \cup {[path |-> path, doc |-> d, write |-> 0]}
                    /\ UNCHANGED <<phase, crash>>
               ELSE /\ stream' = [stream EXCEPT ![d].st = "error"]
                    /\ phase' = "crashed"
                    /\ crash' = [cause |-> "unhandled 'error' event", at |-> "stream", doc |-> d]
                    /\ UNCHANGED fsFiles
    /\ UNCHANGED <<comments, docsTrees, step, writes, join, reports, fsDirs,
                 input, output>>

\* mkdirp(writePath, () => writeMdFile(text, filePath, resolve, reject)):
\* the callback takes no error and issues the write in any case
PageMkdirpCb(d, k) ==
    /\ phase = "running"
    /\ k \in 1..Len(writes[d])
    /\ writes[d][k].st = "mkdirp"
    /\ \E ok \in BOOLEAN :
        /\ ok \/ MayFail
        /\ fsErrors' = Failed(ok)
        /\ fsDirs' = IF ok THEN fsDirs \cup DirChain(writes[d][k].writePath) ELSE fsDirs
    /\ writes' = [writes EXCEPT ![d][k].st = "writeFile"]
    /\ UNCHANGED <<comments, phase, crash, docsTrees, step, stream, join, reports, fsFiles,
                 input, output>>

\* Promise.all after promise k settled: rejected by the first rejection,
\* fulfilled once every promise is resolved, settled only once
Settle(j, ws, k) ==
    IF j.state # "pending" THEN j
    ELSE IF ws[k].st = "rejected" THEN [j EXCEPT !.state = "rejected", !.reason = k]
    ELSE IF \A i \in 1..Len(ws) : ws[i].st = "resolved" THEN [j EXCEPT !.state = "fulfilled"]
    ELSE j

\* a failed write that also settles, as rejected, every promise still pending
writeMdFileCancelling(ws, k, ok) ==
    [i \in 1..Len(ws) |->
        IF i = k THEN [ws[i] EXCEPT !.st = IF ok THEN "resolved" ELSE "rejected"]
        ELSE IF ~ok /\ ws[i].st \in {"mkdirp", "writeFile"}
             THEN [ws[i] EXCEPT !.st = "rejected"]
        ELSE ws[i]]

\* writeMdFile: what the fs.writeFile callback of promise k does to the
\* promises, reject(error) or resolve(filePath) of that one promise
writeMdFile(ws, k, ok) ==
    [ws EXCEPT ![k].st = IF ok THEN "resolved" ELSE "rejected"]

\* writeMdFile's fs.writeFile callback: reject(error) or resolve(filePath)
WriteFileCb(d, k) ==
    /\ phase = "running"
    /\ k \in 1..Len(writes[d])
    /\ writes[d][k].st = "writeFile"
    /\ LET w == writes[d][k]
           there == w.writePath \in fsDirs
       IN  \E ok \in BOOLEAN :
            /\ ok => there
            /\ ~ok /\ there => MayFail
            /\ fsErrors' = IF ~ok /\ there THEN fsErrors + 1 ELSE fsErrors
            /\ fsFiles' = IF ok
                          THEN { f \in fsFiles : f.path # w.filePath }
                                \cup {[path |-> w.filePath, doc |-> d, write |-> k]}
                          ELSE fsFiles
            /\ LET ws == writeMdFile(writes[d], k, ok)
               IN  /\ writes' = [writes EXCEPT ![d] = ws]
                   /\ join' = [join EXCEPT ![d] = Settle(@, ws, k)]
    /\ UNCHANGED <<comments, phase, crash, docsTrees, step, stream, reports, fsDirs,
                 input, output>>

\* the handlers given to .then: stream.end() and the complete / failed line;
\* bluebird calls them in a later turn than the one that settled the promise
ThenCb(d) ==
    /\ phase = "running"
    /\ join[d].state \in {"fulfilled", "rejected"}
    /\ ~join[d].handled
    /\ join' = [join EXCEPT ![d].handled = TRUE]
    /\ stream' = [stream EXCEPT ![d].ends = @ + 1]
    /\ reports' = Append(reports,
                    [doc |-> d,
                     kind |-> IF join[d].state = "fulfilled" THEN "complete" ELSE "failed"])
    /\ UNCHANGED <<comments, phase, crash, docsTrees, step, writes, fsDirs, fsFiles, fsErrors,
                 input, output>>

Next ==
    \/ Build
    \/ GenerateDocs
    \/ \E d \in DOMAIN step : RimrafCb(d)
    \/ \E d \in DOMAIN step : MkdirpCb(d)
    \/ \E d \in DOMAIN step : StreamOpenCb(d)
    \/ \E d \in DOMAIN step : \E k \in 1..Len(writes[d]) : PageMkdirpCb(d, k)
    \/ \E d \in DOMAIN step : \E k \in 1..Len(writes[d]) : WriteFileCb(d, k)
    \/ \E d \in DOMAIN step : ThenCb(d)

\* the whole run
Spec == Init /\ [][Next]_vars

\* the tree builder alone, on a wider set of comment sequences
SpecBuild == InitBuild /\ [][Build]_vars

\* the comment renderer alone
SpecRender == InitRender /\ [][Render]_vars

\* the comment renderer alone, on comments whose tags come in any order
SpecTagOrder == InitTagOrder /\ [][Render]_vars

\* parsePathNames alone
SpecParse == InitParse /\ [][Parse]_vars

\* formatFilename alone
SpecFilename == InitFilename /\ [][Format]_vars

\* the whole run for comments of which some have no desc tag
SpecFaulty == InitFaulty /\ [][Next]_vars

\* the whole run over the output of an earlier run
SpecStale == InitStale /\ [][Next]_vars

\* the whole run for documents whose names are paths into one another
SpecNames == InitNames /\ [][Next]_vars

\* the whole run for pages whose names give the same file name
SpecTies == InitTies /\ [][Next]_vars

\* ------------------------------------------------------------------------
\* The writer of the later version (fs.rm and fs.mkdir for rimraf and
\* mkdirp, the native Promise for bluebird): its mkdir callbacks take the
\* error, log it and return
\* ------------------------------------------------------------------------

\* fs.mkdir(markdownPath, { recursive: true }, (err, _) => { if (err) {
\* logError(err); return; } createWriteStream; write; write;
\* writeMkdocs(...).then }): after an error nothing more is done for the
\* document
MkdirCb(d) ==
    /\ phase = "running"
    /\ step[d] = "mkdirp"
    /\ \E ok \in BOOLEAN :
        /\ ok \/ MayFail
        /\ fsErrors' = Failed(ok)
        /\ IF ok
           THEN /\ fsDirs' = fsDirs \cup DirChain(markdownPathOf(docsTrees[d].docsName))
                /\ step' = [step EXCEPT ![d] = "started"]
                /\ LET dt == docsTrees[d]
                       got == writeMkdocs(dt, markdownPathOf(dt.docsName))
                       head == << <<"s","i","t","e","_","n","a","m","e",":"," ">> \o dt.docsName,
                                  newLine(<<"p","a","g","e","s",":">>, 0) >>
                   IN  /\ stream' = [stream EXCEPT ![d] =
                                        [st |-> "opening", chunks |-> head \o got.chunks,
                                         ends |-> 0]]
                       /\ writes' = [writes EXCEPT ![d] = got.writes]
                       /\ IF got.threw
                          THEN /\ phase' = "crashed"
                               /\ crash' = [cause |-> "TypeError", at |-> "writeMkdocs", doc |-> d]
                               /\ UNCHANGED join
                          ELSE /\ join' = [join EXCEPT ![d] = JoinOf(got.writes)]
                               /\ UNCHANGED <<phase, crash>>
           ELSE /\ step' = [step EXCEPT ![d] = "abandoned"]
                /\ UNCHANGED <<fsDirs, stream, writes, join, phase, crash>>
    /\ UNCHANGED <<comments, docsTrees, reports, fsFiles, input, output>>

\* fs.mkdir(writePath, { recursive: true }, (err, _) => { if (err) {
\* logError(err); return; } writeMdFile(text, filePath, resolve, reject) }):
\* after an error the promise is neither resolved nor rejected
LeafMkdirCb(d, k) ==
    /\ phase = "running"
    /\ k \in 1..Len(writes[d])
    /\ writes[d][k].st = "mkdirp"
    /\ \E ok \in BOOLEAN :
        /\ ok \/ MayFail
        /\ fsErrors' = Failed(ok)
        /\ fsDirs' = IF ok THEN fsDirs \cup DirChain(writes[d][k].writePath) ELSE fsDirs
        /\ writes' = [writes EXCEPT ![d][k].st = IF ok THEN "writeFile" ELSE "abandoned"]
    /\ UNCHANGED <<comments, phase, crash, docsTrees, step, stream, join, reports, fsFiles,
                 input, output>>

NextMkdir ==
    \/ Build
    \/ GenerateDocs
    \/ \E d \in DOMAIN step : RimrafCb(d)
    \/ \E d \in DOMAIN step : MkdirCb(d)
    \/ \E d \in DOMAIN step : StreamOpenCb(d)
    \/ \E d \in DOMAIN step : \E k \in 1..Len(writes[d]) : LeafMkdirCb(d, k)
    \/ \E d \in DOMAIN step : \E k \in 1..Len(writes[d]) : WriteFileCb(d, k)
    \/ \E d \in DOMAIN step : ThenCb(d)

\* the whole run of the later version; the event loop runs a pending
\* callback as long as there is one
SpecMkdir == Init /\ [][NextMkdir]_vars /\ WF_vars(NextMkdir)

\* ------------------------------------------------------------------------
\* Reading the built trees
\* ------------------------------------------------------------------------

\* getDocsTrees has returned
Placed == phase \in {"built", "running"}

\* the path names of the i-th comment
Segs(i) == parsePathNames(comments[i])

\* every node at or below `node`, with the sub-page indices and the page
\* names that lead to it
RECURSIVE NodesBelow(_, _, _)
NodesBelow(node, ipath, names) ==
    {[ipath |-> ipath, names |-> names, node |-> node]}
        \cup UNION { NodesBelow(node.subPages[i], Append(ipath, i),
                                Append(names, node.subPages[i].pageName)) :
                        i \in 1..Len(node.subPages) }

TreeNodes(d) == NodesBelow(docsTrees[d], <<>>, <<>>)

\* every place a comment with this id takes in a Sections list
Occ(id) ==
    UNION { UNION { UNION {
        { [d |-> d, ipath |-> n.ipath, names |-> n.names,
           section |-> n.node.sections[s].name, s |-> s, pos |-> i] :
            i \in { j \in 1..Len(n.node.sections[s].comments) :
                        n.node.sections[s].comments[j].id = id } } :
        s \in 1..Len(n.node.sections) } :
        n \in TreeNodes(d) } :
        d \in 1..Len(docsTrees) }

\* the first occurrences of a sequence's elements, in order
RECURSIVE FirstSeen(_)
FirstSeen(seq) ==
    IF seq = <<>> THEN <<>>
    ELSE LET n == Len(seq)
             before == FirstSeen(SubSeq(seq, 1, n - 1))
         IN  IF IndexOf(before, seq[n]) = 0 THEN Append(before, seq[n]) ELSE before

\* ------------------------------------------------------------------------
\* Claims about the tree builder
\* ------------------------------------------------------------------------

\* C1: once getDocsTrees has returned, every input comment takes exactly one
\* place in the Sections lists of all document trees together (none lost,
\* none duplicated), and every comment found in a list is an input comment.
C1_EveryCommentExactlyOnce ==
    Placed =>
        /\ \A i \in 1..Len(comments) : Cardinality(Occ(i)) = 1
        /\ \A d \in 1..Len(docsTrees) : \A n \in TreeNodes(d) :
             \A s \in 1..Len(n.node.sections) :
                \A j \in 1..Len(n.node.sections[s].comments) :
                    LET c == n.node.sections[s].comments[j]
                    IN  c.id \in 1..Len(comments) /\ c = comments[c.id]

\* C1 witness: three comments built into two documents, two of the comments
\* sharing one section list of a page
C1_Witness ==
    /\ phase = "built"
    /\ Len(comments) >= 3
    /\ Len(docsTrees) >= 2
    /\ \E d \in 1..Len(docsTrees) : \E n \in TreeNodes(d) :
         /\ n.ipath # <<>>
         /\ \E s \in 1..Len(n.node.sections) : Len(n.node.sections[s].comments) >= 2

\* C4: a comment whose directive is the single segment "A" is found, after
\* the build, in document A under a section named A.
C4_SingleSegmentSectionIsDocName ==
    Placed =>
        \A i \in 1..Len(comments) :
            Len(Segs(i)) = 1 =>
                \E o \in Occ(i) :
                    /\ docsTrees[o.d].docsName = Segs(i)[1]
                    /\ o.section = Segs(i)[1]

\* C5: documents come in first-seen order of their names; in every node the
\* section headings come, in the order the renderer enumerates them, in the
\* order in which the sections were first seen; and the comments of a
\* section are in arrival order.
C5_OrderPreserving ==
    Placed =>
        /\ DocsNames(docsTrees) = FirstSeen([i \in 1..Len(comments) |-> Segs(i)[1]])
        /\ \A d \in 1..Len(docsTrees) : \A n \in TreeNodes(d) :
            /\ LET text == getMarkdownString(n.node)
                   heads == { p \in 1..Len(text) : "h2" \in DOMAIN text[p] }
               IN  \A p, q \in heads : p < q => text[p + 1].comment < text[q + 1].comment
            /\ \A s \in 1..Len(n.node.sections) :
                 LET cs == n.node.sections[s].comments
                 IN  \A j, k \in 1..Len(cs) : j < k => cs[j].id < cs[k].id

\* the document and page names a comment's directive gives its node
NodePath(i) ==
    IF Len(Segs(i)) = 1 THEN Segs(i) ELSE SubSeq(Segs(i), 1, Len(Segs(i)) - 1)

\* the nodes (document, sub-page indices) that hold comment i
NodeLocs(i) == { <<o.d, o.ipath>> : o \in Occ(i) }

\* C6: page names are unique among the sub-pages of every node and document
\* names among the trees; comments with the same document and page path lie
\* in one node, comments with an identical directive in one Sections list,
\* and comments whose document or page path differs lie in different nodes.
C6_PagesUniquePerParent ==
    Placed =>
        /\ \A d, e \in 1..Len(docsTrees) :
             docsTrees[d].docsName = docsTrees[e].docsName => d = e
        /\ \A d \in 1..Len(docsTrees) : \A n \in TreeNodes(d) :
             \A j, k \in 1..Len(n.node.subPages) :
                n.node.subPages[j].pageName = n.node.subPages[k].pageName => j = k
        /\ \A i, j \in 1..Len(comments) :
             /\ NodePath(i) = NodePath(j) <=> NodeLocs(i) = NodeLocs(j)
             /\ Segs(i) = Segs(j) =>
                    { <<o.d, o.ipath, o.s>> : o \in Occ(i) }
                        = { <<o.d, o.ipath, o.s>> : o \in Occ(j) }

\* C6 witness: the same page name under two parents and in two documents,
\* and one page shared by two comments
C6_Witness ==
    /\ phase = "built"
    /\ \E i, j \in 1..Len(comments) :
         /\ i # j
         /\ NodePath(i) = NodePath(j)
         /\ Len(NodePath(i)) >= 2
    /\ \E i, j \in 1..Len(comments) :
         /\ Len(NodePath(i)) >= 2 /\ Len(NodePath(j)) >= 2
         /\ NodePath(i)[Len(NodePath(i))] = NodePath(j)[Len(NodePath(j))]
         /\ NodePath(i) # NodePath(j)

\* C7: a comment with n >= 2 path names lies in the section named by the
\* last of them, in the node reached from the root of the document named by
\* the first through exactly the pages named by the n-2 names between; a
\* document has pages only if one of its comments names one, and every page
\* of the tree lies on the path of some comment.
C7_PlacedByPath ==
    Placed =>
        /\ \A i \in 1..Len(comments) :
             LET s == Segs(i)
                 n == Len(s)
             IN  n >= 2 =>
                    /\ Occ(i) # {}
                    /\ \A o \in Occ(i) :
                         /\ docsTrees[o.d].docsName = s[1]
                         /\ o.names = SubSeq(s, 2, n - 1)
                         /\ Len(o.ipath) = n - 2
                         /\ o.section = s[n]
        /\ \A d \in 1..Len(docsTrees) :
             /\ docsTrees[d].hasSubPages <=>
                    \E i \in 1..Len(comments) :
                        Segs(i)[1] = docsTrees[d].docsName /\ Len(Segs(i)) >= 3
             /\ \A n \in TreeNodes(d) :
                    n.ipath # <<>> =>
                        \E i \in 1..Len(comments) :
                            /\ Segs(i)[1] = docsTrees[d].docsName
                            /\ Len(Segs(i)) >= Len(n.names) + 2
                            /\ SubSeq(Segs(i), 2, Len(n.names) + 1) = n.names

\* C7 witness: a document built from "Doc // Sec" alone (no page), next to
\* a comment that lies two pages deep
C7_Witness ==
    /\ phase = "built"
    /\ \E d \in 1..Len(docsTrees) :
         ~docsTrees[d].hasSubPages /\ docsTrees[d].hasSections
    /\ \E i \in 1..Len(comments) : Len(Segs(i)) = 4

\* ------------------------------------------------------------------------
\* Claims about the writer
\* ------------------------------------------------------------------------

\* the mkdirp callback of document d has run (writeMkdocs was called)
Started(d) == d \in DOMAIN step /\ step[d] = "started"

Settled(w) == w.st \in {"resolved", "rejected"}

\* C2: the manifest stream of a document is ended only when every write
\* issued for the document (index.md and each leaf page) has completed,
\* with success or with failure.
C2_ManifestEndedAfterAllWrites ==
    \A d \in DOMAIN stream :
        stream[d].ends > 0 => \A k \in 1..Len(writes[d]) : Settled(writes[d][k])

\* C3: a document whose tree has no pages, only root-level sections, is
\* rendered without an error being raised, with a leaf page write issued
\* for each of its section names.
C3_FlatDocumentRenders ==
    \A d \in DOMAIN step :
        Started(d) /\ ~docsTrees[d].hasSubPages =>
            /\ ~(phase = "crashed" /\ crash.doc = d /\ crash.cause = "TypeError")
            /\ \A s \in 1..Len(docsTrees[d].sections) :
                 \E k \in 1..Len(writes[d]) :
                    /\ writes[d][k].kind = "page"
                    /\ writes[d][k].pages = <<docsTrees[d].sections[s].name>>

\* the names joined by forward slashes
RECURSIVE SlashJoin(_)
SlashJoin(names) ==
    IF names = <<>> THEN <<>>
    ELSE IF Len(names) = 1 THEN names[1]
    ELSE names[1] \o <<"/">> \o SlashJoin(Tail(names))

\* C8: for the leaf page reached through pages p1..pk, the path put into the
\* manifest is formatFilename(p1)/.../formatFilename(pk).md, and that is the
\* place, below the document's docs directory, of the file written for it.
C8_ManifestPathIsFileLocation ==
    \A d \in DOMAIN writes : \A k \in 1..Len(writes[d]) :
        LET w == writes[d][k]
            expected == SlashJoin([i \in 1..Len(w.pages) |-> formatFilename(w.pages[i])])
                            \o <<".","m","d">>
        IN  w.kind = "page" =>
                /\ w.relWritePath = expected
                /\ w.filePath = markdownPathOf(docsTrees[d].docsName) \o <<"/">> \o expected
                /\ \E c \in 1..Len(stream[d].chunks) :
                     stream[d].chunks[c] = <<" ","'">> \o expected \o <<"'">>

\* document d consists of one page that holds one section
OnePageOneSection(d) ==
    /\ ~docsTrees[d].hasSections
    /\ Len(docsTrees[d].subPages) = 1
    /\ ~docsTrees[d].subPages[1].hasSubPages
    /\ Len(docsTrees[d].subPages[1].sections) = 1

Quiescent ==
    /\ phase = "running"
    /\ \A d \in DOMAIN step :
        /\ step[d] = "started"
        /\ stream[d].st # "opening"
        /\ \A k \in 1..Len(writes[d]) : Settled(writes[d][k])
        /\ join[d].handled

\* C10: a filesystem error never ends the process, and when nothing is left
\* to run every document has been reported, complete or failed, once.
C10_FsErrorStaysInItsDocument ==
    /\ phase = "crashed" => crash.at # "stream"
    /\ Quiescent =>
         \A d \in DOMAIN step :
            Cardinality({ r \in 1..Len(reports) : reports[r].doc = d }) = 1

\* C11: the failure of one file write of a document changes nothing of the
\* other writes of the document and does not end the process, and every
\* write of a document whose generation has already failed can still run
\* its own callback: none is cancelled or skipped.
C11_SiblingWritesRun ==
    /\ [](\A d \in DOMAIN writes : \A j \in 1..Len(writes[d]) :
            phase = "running" /\ join[d].state = "rejected" =>
                /\ writes[d][j].st = "writeFile" => ENABLED WriteFileCb(d, j)
                /\ writes[d][j].st = "mkdirp" => ENABLED PageMkdirpCb(d, j))
    /\ [][\A d \in DOMAIN writes : \A k \in 1..Len(writes[d]) :
            writes[d][k].st = "writeFile" /\ writes'[d][k].st = "rejected" =>
                /\ phase' = "running"
                /\ \A j \in 1..Len(writes[d]) : j # k => writes'[d][j] = writes[d][j]]_vars

\* C11 witness: the failure of a document has been reported while another
\* write of the document still awaits its callback
C11_Witness ==
    \E d \in DOMAIN writes : \E k, j \in 1..Len(writes[d]) :
        /\ phase = "running"
        /\ fsErrors > 0
        /\ writes[d][k].st = "rejected"
        /\ join[d].state = "rejected" /\ join[d].handled
        /\ writes[d][j].st = "writeFile"

\* the directories the mkdirp calls of document e name
DirsOf(e) ==
    DirChain(markdownPathOf(docsTrees[e].docsName))
        \cup UNION { DirChain(writes[e][k].writePath) : k \in 1..Len(writes[e]) }

\* C12: the cleanup of a document removes nothing created for another
\* document: when the rimraf of document d completes, every file written
\* for a document of another name, and every directory made for one, is
\* still there.
C12_CleanupTouchesOnlyOwnDocument ==
    [][\A d \in DOMAIN step :
        step[d] = "rimraf" /\ step'[d] = "mkdirp" =>
            \A e \in DOMAIN step :
                docsTrees[e].docsName # docsTrees[d].docsName =>
                    /\ \A f \in fsFiles : f.doc = e => f \in fsFiles'
                    /\ step[e] = "started" =>
                         \A q \in DirsOf(e) : q \in fsDirs => q \in fsDirs']_vars

\* a file left by an earlier run
Stale(f) == f.doc = 0

Reported(d, kind) ==
    Cardinality({ r \in 1..Len(reports) : reports[r].doc = d /\ reports[r].kind = kind })

\* a file write of document d has failed
WriteFailed(d) ==
    \E k \in 1..Len(writes[d]) : writes[d][k].st = "rejected"

\* the process has ended or has nothing left to run
Over == phase = "crashed" \/ Quiescent

\* C14: a document of which a file write failed is reported as failed once,
\* at the latest when the run is over, and never as complete; after the
\* failure no file written for the document is removed and the failed write
\* is not issued again.
C14_WriteFailureReportedOnce ==
    /\ [](\A d \in DOMAIN writes :
            WriteFailed(d) =>
                /\ Reported(d, "complete") = 0
                /\ Reported(d, "failed") <= 1
                /\ Over => Reported(d, "failed") = 1)
    /\ [][\A d \in DOMAIN writes :
            WriteFailed(d) =>
                /\ \A f \in fsFiles : f.doc = d => f \in fsFiles'
                /\ \A k \in 1..Len(writes[d]) :
                     writes[d][k].st = "rejected" => writes'[d][k] = writes[d][k]]_vars

\* ------------------------------------------------------------------------
\* Claims about the comment renderer
\* ------------------------------------------------------------------------

\* the comment has no desc tag, or its desc tag is the bare name "f", which
\* is not of the shape name - description
DescAbsentOrMalformed(comment) ==
    LET found == TagsOfType(comment.tags, "desc")
    IN  found = <<>> \/ found[1].string = <<"f">>

\* C15: rendering a comment whose desc tag is absent or malformed raises
\* no error and returns a fragment.
C15_BadDescRendersWithoutError ==
    output.called /\ DescAbsentOrMalformed(input) => ~output.threw

\* f occurs in t
Contains(t, f) ==
    \E i \in 1..(Len(t) - Len(f) + 1) : SubSeq(t, i, i + Len(f) - 1) = f

\* the comments of a node, whatever their section
CommentsOf(node) ==
    UNION { { node.sections[s].comments[i] : i \in 1..Len(node.sections[s].comments) } :
            s \in 1..Len(node.sections) }

\* the write issued for the page reached by the page names `names`
WritesFor(d, names) ==
    { k \in 1..Len(writes[d]) : writes[d][k].kind = "page" /\ writes[d][k].pages = names }

\* the leaf pages of document d: nodes below the root without sub-pages
LeafPages(d) ==
    { n \in TreeNodes(d) : n.ipath # <<>> /\ ~n.node.hasSubPages }

\* C16: when a comment of a page fails to render, the file of the page is
\* still written with the fragments of the other comments of the page, the
\* other pages of the document are written, and, no filesystem operation
\* having failed, the document is not reported as failed.
C16_RenderFailureStaysLocal ==
    \A d \in DOMAIN step :
        Started(d) /\ fsErrors = 0
          /\ (\E n \in LeafPages(d) : \E c \in CommentsOf(n.node) : getCommentStringThrows(c)) =>
            /\ \A n \in LeafPages(d) :
                 \E k \in WritesFor(d, n.names) :
                    /\ writes[d][k].st # "rejected"
                    /\ \A c \in CommentsOf(n.node) :
                         ~getCommentStringThrows(c) =>
                            Contains(writes[d][k].text, getCommentString(c))
            /\ join[d].state # "rejected"
            /\ Reported(d, "failed") = 0

\* the renderer output of the comments cs from the i-th on, in list order
RECURSIVE FragmentsFrom(_, _)
FragmentsFrom(cs, i) ==
    IF i > Len(cs) THEN <<>> ELSE getCommentString(cs[i]) \o FragmentsFrom(cs, i + 1)

\* for each section from the s-th on, in insertion order, the heading
\* "## name" with the empty line after it, then the fragments of its comments
RECURSIVE SectionsInOrder(_, _)
SectionsInOrder(sections, s) ==
    IF s > Len(sections) THEN <<>>
    ELSE <<"#","#"," ">> \o sections[s].name \o <<"\n","\n">>
            \o FragmentsFrom(sections[s].comments, 1)
            \o SectionsInOrder(sections, s + 1)

\* C17: for every leaf page with sections one file write is issued, and
\* its text is, section by section in insertion order, the level-2 heading
\* of the section followed by the renderer output of its comments in list
\* order, and nothing else.
C17_LeafPageFileText ==
    \A d \in DOMAIN step :
        Started(d) =>
            \A n \in LeafPages(d) :
                n.node.hasSections =>
                    /\ Cardinality(WritesFor(d, n.names)) = 1
                    /\ \A c \in CommentsOf(n.node) : ~getCommentStringThrows(c)
                    /\ \A k \in WritesFor(d, n.names) :
                         writes[d][k].text = SectionsInOrder(n.node.sections, 1)

\* ------------------------------------------------------------------------
\* Claims about the manifest
\* ------------------------------------------------------------------------

\* what was written to the stream, in order
RECURSIVE Flatten(_)
Flatten(chunks) ==
    IF chunks = <<>> THEN <<>> ELSE chunks[1] \o Flatten(Tail(chunks))

\* the path the manifest gives for the page reached by the page names
ManifestPathOf(d, names) ==
    writes[d][CHOOSE k \in WritesFor(d, names) : TRUE].relWritePath

\* the entries of the pages from the i-th on and of all pages below them,
\* depth first, a page before its sub-pages, siblings in list order, each
\* on a line of its own behind four spaces a level
RECURSIVE ManifestEntries(_, _, _, _, _)
ManifestEntries(d, pages, i, depth, above) ==
    IF i > Len(pages) THEN <<>>
    ELSE LET page == pages[i]
             names == Append(above, page.pageName)
             entry == <<"\n">> \o [j \in 1..(4 * depth) |-> " "]
                        \o <<"-"," ","'">> \o page.pageName \o <<"'",":">>
         IN  entry
                \o (IF page.hasSubPages
                    THEN ManifestEntries(d, page.subPages, 1, depth + 1, names)
                    ELSE <<" ","'">> \o ManifestPathOf(d, names) \o <<"'">>)
                \o ManifestEntries(d, pages, i + 1, depth, above)

\* C18: the manifest of a document is "site_name: D", "pages:", the Home
\* entry, then one entry a page in depth-first pre-order, siblings in
\* first-seen order, indented four spaces a level; a page with sub-pages has
\* no path and is followed by its sub-pages one level deeper, a page
\* without sub-pages has one path.
C18_ManifestText ==
    \A d \in DOMAIN step :
        Started(d) =>
            Flatten(stream[d].chunks)
                = <<"s","i","t","e","_","n","a","m","e",":"," ">> \o docsTrees[d].docsName
                    \o <<"\n","p","a","g","e","s",":">>
                    \o <<"\n","-"," ","H","o","m","e",":"," ","'","i","n","d","e","x",".","m","d","'">>
                    \o ManifestEntries(d, docsTrees[d].subPages, 1, 0, <<>>)

\* C18 witness: the manifest of a document with two pages, the first
\* without sub-pages and the second with one, is open and written
C18_Witness ==
    \E d \in DOMAIN step :
        /\ Started(d)
        /\ stream[d].st = "open"
        /\ Len(docsTrees[d].subPages) = 2
        /\ ~docsTrees[d].subPages[1].hasSubPages
        /\ docsTrees[d].subPages[2].hasSubPages
        /\ Len(stream[d].chunks) = 8

\* ------------------------------------------------------------------------
\* Claims about formatFilename
\* ------------------------------------------------------------------------

\* x in lower case with a hyphen for each maximal run of whitespace: every
\* other character in lower case, a hyphen where a run starts, nothing for
\* the rest of the run
Hyphenated(x) ==
    LET mark == [i \in 1..Len(x) |->
                    IF ~IsSpace(x[i]) THEN <<LowerChar(x[i])>>
                    ELSE IF i = 1 \/ ~IsSpace(x[i - 1]) THEN <<"-">>
                    ELSE <<>>]
    IN  Flatten(mark)

\* C19: formatFilename(x) is x in lower case with one hyphen for each
\* maximal run of whitespace, and formatFilename of that is the same again.
C19_FormatFilenameIdempotent ==
    output.called =>
        /\ output.once = Hyphenated(input)
        /\ output.twice = output.once

\* C19 witness: formatFilename was applied to a name that starts with a
\* capital and ends in a run of two whitespace characters
C19_Witness ==
    /\ output.called
    /\ Len(input) = 3
    /\ input[1] = "A"
    /\ IsSpace(input[2]) /\ IsSpace(input[3])
    /\ output.once = <<"a","-">>

\* ------------------------------------------------------------------------
\* Claims about the rows of the Params and Data tables
\* ------------------------------------------------------------------------

\* "x - ok", a tag string without a type
MalformedTag == <<"x"," ","-"," ","o","k">>

\* the tags of the family hold a malformed one
HasMalformed(comment, family) ==
    \E i \in 1..Len(comment.tags) :
        comment.tags[i].type = family /\ comment.tags[i].string = MalformedTag

\* the row name | type | description of a tag string: "{T} x - ok" names
\* x of type T, "{U[]} y no" names y of type U[], and a malformed string
\* has no row
ExpectedRow(string) ==
    IF string = <<"{","T","}"," ","x"," ","-"," ","o","k">>
    THEN <<"x"," ","|"," ",Backquote,"T",Backquote," ","|"," ","o","k","\n">>
    ELSE IF string = <<"{","U","[","]","}"," ","y"," ","n","o">>
    THEN <<"y"," ","|"," ",Backquote,"U","[","]",Backquote," ","|"," ","n","o","\n">>
    ELSE <<>>

\* the rows of the tags of the family, in tag order, and the closing line feed
ExpectedRows(comment, family) ==
    LET tags == TagsOfType(comment.tags, family)
    IN  Flatten([i \in 1..Len(tags) |-> ExpectedRow(tags[i].string)]) \o <<"\n">>

\* what getCommentTableRows returned for the family
RowsGiven(family) == IF family = "param" THEN output.params ELSE output.data

\* C20: rendering a comment in which a param or data tag is malformed does
\* not throw; the malformed tag has no row, and every well-formed tag of the
\* family has its row name | type | description, in tag order, in the
\* fragment.
C20_MalformedTagNeverThrows ==
    output.called =>
        \A family \in {"param", "data"} :
            HasMalformed(input, family) =>
                /\ ~output.threw
                /\ ~RowsGiven(family).null
                /\ RowsGiven(family).rows = ExpectedRows(input, family)
                /\ Contains(output.value, ExpectedRows(input, family))

\* ------------------------------------------------------------------------
\* Claims about the parts of a fragment
\* ------------------------------------------------------------------------

\* the sub-heading and the header of a table
TableHeadOf(title) ==
    <<"#","#","#","#"," ">> \o title
        \o <<"\n","N","a","m","e"," ","|"," ","T","y","p","e"," ","|"," ","D","e","s","c","r","i","p","t","i","o","n","\n">>
        \o <<"-","-","-"," ","|"," ","-","-","-"," ","|"," ","-","-","-","\n">>

\* the table of a family: nothing without a tag of the family, else the
\* head and the rows of its tags
ExpectedTable(comment, family, title) ==
    IF \A i \in 1..Len(comment.tags) : comment.tags[i].type # family THEN <<>>
    ELSE TableHeadOf(title) \o ExpectedRows(comment, family)

\* the Returns part: nothing without a returns tag or when the first one is
\* malformed, else type and description of "{T} ok"
ExpectedReturns(comment) ==
    LET found == TagsOfType(comment.tags, "returns")
    IN  IF found # <<>> /\ found[1].string = <<"{","T","}"," ","o","k">>
        THEN <<"#","#","#","#"," ","R","e","t","u","r","n","s","\n",Backquote,"T",Backquote," ","o","k","\n","<","b","r",">","<","b","r",">","\n">>
        ELSE <<>>

ParamsTitle == <<"P","a","r","a","m","s">>

DataTitle == <<"D","a","t","a">>

\* C21: a rendered fragment is the heading with name and description, then
\* the Params table, then the Data table, then Returns, whatever the order of
\* the tags in the comment; a family without a tag, and an absent or
\* malformed returns tag, put nothing into the fragment, no sub-heading and
\* no table header.
C21_PartsInFixedOrder ==
    output.called /\ ~output.threw =>
        /\ output.value
             = <<"#","#","#"," ","f","\n","d","o","\n","<","b","r",">","<","b","r",">","\n">>
                \o ExpectedTable(input, "param", ParamsTitle)
                \o ExpectedTable(input, "data", DataTitle)
                \o ExpectedReturns(input)
        /\ TagsOfType(input.tags, "param") = <<>> =>
                ~Contains(output.value, <<"#","#","#","#"," ">> \o ParamsTitle)
        /\ TagsOfType(input.tags, "data") = <<>> =>
                ~Contains(output.value, <<"#","#","#","#"," ">> \o DataTitle)
        /\ TagsOfType(input.tags, "param") = <<>> /\ TagsOfType(input.tags, "data") = <<>> =>
                ~Contains(output.value, <<"N","a","m","e"," ","|"," ","T","y","p","e">>)
        /\ ExpectedReturns(input) = <<>> =>
                ~Contains(output.value, <<"#","#","#","#"," ","R","e","t","u","r","n","s">>)

\* C21 witness: a comment whose tags come as returns, data, param, desc has
\* been rendered, all four parts in the fragment
C21_Witness ==
    /\ output.called /\ ~output.threw
    /\ Len(input.tags) = 4
    /\ input.tags[1] = [type |-> "returns", string |-> <<"{","T","}"," ","o","k">>]
    /\ input.tags[2].type = "data"
    /\ input.tags[3] = [type |-> "param", string |-> <<"{","T","}"," ","x"," ","-"," ","o","k">>]
    /\ input.tags[4].type = "desc"
    /\ Contains(output.value, <<"#","#","#","#"," ","R","e","t","u","r","n","s">>)

\* ------------------------------------------------------------------------
\* Claims about parsePathNames
\* ------------------------------------------------------------------------

\* s cut at every double slash, from the left
RECURSIVE CutAtDoubleSlash(_)
CutAtDoubleSlash(s) ==
    LET at == { q \in 1..(Len(s) - 1) : s[q] = "/" /\ s[q + 1] = "/" }
    IN  IF at = {} THEN <<s>>
        ELSE LET q == CHOOSE q \in at : \A r \in at : q <= r
             IN  <<SubSeq(s, 1, q - 1)>> \o CutAtDoubleSlash(SubSeq(s, q + 2, Len(s)))

\* s without the whitespace at its ends
Trimmed(s) ==
    LET inked == { i \in 1..Len(s) : ~IsSpace(s[i]) }
    IN  IF inked = {} THEN <<>>
        ELSE SubSeq(s, CHOOSE i \in inked : \A k \in inked : i <= k,
                       CHOOSE i \in inked : \A k \in inked : k <= i)

\* the string of the first docs tag of the comment
FirstDocsString(comment) ==
    comment.tags[CHOOSE i \in 1..Len(comment.tags) :
                    /\ comment.tags[i].type = "docs"
                    /\ \A k \in 1..(i - 1) : comment.tags[k].type # "docs"].string

\* C22: parsePathNames returns the string of the first docs tag cut at every
\* double slash, each piece without the whitespace around it, in order;
\* "A // B // C" gives A, B, C and "A" gives A; the result is not empty and
\* none of its segments is empty.
C22_SplitIntoNonEmptySegments ==
    output.called =>
        LET raw == FirstDocsString(input)
            cut == CutAtDoubleSlash(raw)
        IN  /\ output.value = [i \in 1..Len(cut) |-> Trimmed(cut[i])]
            /\ raw = <<"A"," ","/","/"," ","B"," ","/","/"," ","C">> => output.value = << <<"A">>, <<"B">>, <<"C">> >>
            /\ raw = <<"A">> => output.value = << <<"A">> >>
            /\ Len(output.value) >= 1
            /\ \A i \in 1..Len(output.value) : output.value[i] # <<>>

\* ------------------------------------------------------------------------
\* Claims about the Sections lists
\* ------------------------------------------------------------------------

\* the comments that stand behind place o in its Sections list
Behind(o) ==
    LET cs == NodesBelow(docsTrees[o.d], <<>>, <<>>)
        at == CHOOSE n \in cs : n.ipath = o.ipath
        list == at.node.sections[o.s].comments
    IN  { list[j].id : j \in (o.pos + 1)..Len(list) }

\* C23: whatever the section name, buildPages raises no error at the final
\* segment: the comment is appended to the list stored under that name at
\* its tree level, the list being created when there was none, so that it
\* is the last element of the list until a later comment is appended.
C23_AppendedToItsSection ==
    /\ ~(phase = "crashed" /\ crash.at = "getDocsTrees")
    /\ Placed =>
         \A i \in 1..Len(comments) :
            Len(Segs(i)) >= 2 =>
                \E o \in Occ(i) :
                    /\ o.section = Segs(i)[Len(Segs(i))]
                    /\ \A j \in Behind(o) : j > i

\* ------------------------------------------------------------------------
\* Claims about pages that share a file
\* ------------------------------------------------------------------------

\* the name in lower case with one space for each run of whitespace
Squeezed(name) ==
    LET mark == [i \in 1..Len(name) |->
                    IF ~IsSpace(name[i]) THEN <<LowerChar(name[i])>>
                    ELSE IF i = 1 \/ ~IsSpace(name[i - 1]) THEN <<" ">>
                    ELSE <<>>]
    IN  Flatten(mark)

\* two leaf pages of one parent whose names differ, but only by letter case
\* or by the length of runs of whitespace
Tied(m, n) ==
    /\ m.ipath # n.ipath
    /\ Len(m.ipath) = Len(n.ipath)
    /\ SubSeq(m.ipath, 1, Len(m.ipath) - 1) = SubSeq(n.ipath, 1, Len(n.ipath) - 1)
    /\ m.node.pageName # n.node.pageName
    /\ Squeezed(m.node.pageName) = Squeezed(n.node.pageName)

\* the manifest entries of document d that give the path
EntriesWith(d, path) ==
    { c \in 1..Len(stream[d].chunks) : stream[d].chunks[c] = <<" ","'">> \o path \o <<"'">> }

\* C24: sibling leaf pages whose names differ only by case or by runs of
\* whitespace get the same file name; a write is issued for each of them,
\* to the same file path, and the manifest gives that path in the entry of
\* each; the file holds the text of the write that completed last.
C24_TiedPagesShareOneFile ==
    /\ [](\A d \in DOMAIN step :
            Started(d) =>
                \A m, n \in LeafPages(d) :
                    Tied(m, n) =>
                        /\ formatFilename(m.node.pageName) = formatFilename(n.node.pageName)
                        /\ \E k \in WritesFor(d, m.names) : \E j \in WritesFor(d, n.names) :
                             /\ k # j
                             /\ writes[d][k].filePath = writes[d][j].filePath
                             /\ writes[d][k].relWritePath = writes[d][j].relWritePath
                             /\ Cardinality(EntriesWith(d, writes[d][k].relWritePath)) >= 2
                             /\ Cardinality({ f \in fsFiles :
                                                f.path = writes[d][k].filePath }) <= 1)
    /\ [][\A d \in DOMAIN writes : \A k \in 1..Len(writes[d]) :
            writes[d][k].st = "writeFile" /\ writes'[d][k].st = "resolved" =>
                \A f \in fsFiles' :
                    f.path = writes[d][k].filePath => f.doc = d /\ f.write = k]_vars

\* C24 witness: the writes of two tied pages with different texts have both
\* completed, and the file holds the text of the one issued first
C24_Witness ==
    \E d \in DOMAIN step : \E m, n \in LeafPages(d) :
        /\ Tied(m, n)
        /\ \E k \in WritesFor(d, m.names) : \E j \in WritesFor(d, n.names) :
             /\ k < j
             /\ writes[d][k].st = "resolved" /\ writes[d][j].st = "resolved"
             /\ writes[d][k].text # writes[d][j].text
             /\ \E f \in fsFiles :
                    f.path = writes[d][j].filePath /\ f.doc = d /\ f.write = k

\* ------------------------------------------------------------------------
\* Claims about what reaches the files
\* ------------------------------------------------------------------------

\* the fragment of comment i is part of the text of write k of document d:
\* the write is the one of the page whose Sections hold the comment
AppearsIn(i, d, k) ==
    /\ writes[d][k].kind = "page"
    /\ \E n \in TreeNodes(d) :
         /\ n.names = writes[d][k].pages
         /\ n.node.hasSections
         /\ \E s \in 1..Len(n.node.sections) :
              \E c \in 1..Len(n.node.sections[s].comments) :
                 n.node.sections[s].comments[c].id = i
         /\ writes[d][k].text = markdownText(getMarkdownString(n.node))
         /\ Contains(writes[d][k].text, getCommentString(comments[i]))

\* C25: once the writes of a document are issued, every comment placed in
\* its tree, in a section of the root and of a page with sub-pages too, is
\* part of the text of exactly one of them.
C25_EveryCommentInOneFile ==
    \A d \in DOMAIN step :
        Started(d) =>
            \A i \in 1..Len(comments) :
                (\E o \in Occ(i) : o.d = d) =>
                    Cardinality({ k \in 1..Len(writes[d]) : AppearsIn(i, d, k) }) = 1

\* ------------------------------------------------------------------------
\* Claims about the reports
\* ------------------------------------------------------------------------

\* index.md and the file of every leaf page of document d have been written
AllWritten(d) ==
    /\ \E k \in 1..Len(writes[d]) : writes[d][k].kind = "index" /\ writes[d][k].st = "resolved"
    /\ \A n \in LeafPages(d) :
         \E k \in WritesFor(d, n.names) : writes[d][k].st = "resolved"
    /\ \A k \in 1..Len(writes[d]) : writes[d][k].st = "resolved"

\* C26: a document is reported complete only after index.md and every leaf
\* page file of it were written; the manifest stream of every document is
\* ended once, never twice, and one of the two reports is made for it,
\* never both, by the time the run is over.
C26_OneReportAfterAllWrites ==
    \A d \in DOMAIN step :
        /\ Reported(d, "complete") > 0 => AllWritten(d)
        /\ stream[d].ends <= 1
        /\ Reported(d, "complete") + Reported(d, "failed") <= 1
        /\ Over => /\ stream[d].ends = 1
                   /\ Reported(d, "complete") + Reported(d, "failed") = 1

\* ------------------------------------------------------------------------
\* Claims about the end of the run
\* ------------------------------------------------------------------------

\* every callback has fired: none is pending
Idle ==
    /\ phase = "running"
    /\ \A d \in DOMAIN step :
        /\ step[d] \in {"started", "abandoned"}
        /\ stream[d].st # "opening"
        /\ \A k \in 1..Len(writes[d]) : writes[d][k].st \notin {"mkdirp", "writeFile"}
        /\ join[d].state \in {"fulfilled", "rejected"} => join[d].handled

\* the directory of a leaf page of document d could not be made
PageDirFailed(d) ==
    \E k \in 1..Len(writes[d]) : writes[d][k].st = "abandoned"

\* C27: once every callback has fired, every document whose docs directory
\* was made has its manifest stream ended and is reported, complete or
\* failed; a document of which the directory of a leaf page could not be
\* made is reported as failed.
C27_StartedDocumentGetsReported ==
    \A d \in DOMAIN step :
        Started(d) /\ (Idle \/ phase = "crashed") =>
            /\ stream[d].ends >= 1
            /\ Reported(d, "complete") + Reported(d, "failed") >= 1
            /\ PageDirFailed(d) => Reported(d, "failed") >= 1

\* ------------------------------------------------------------------------
\* Claims about the shape of the pages
\* ------------------------------------------------------------------------

\* the page has a sub-page
HasSubPage(node) == node.hasSubPages /\ Len(node.subPages) >= 1

\* the page has a Sections mapping with a list that holds a comment
HasFilledSection(node) ==
    /\ node.hasSections
    /\ \E s \in 1..Len(node.sections) : Len(node.sections[s].comments) >= 1

\* C28: once getDocsTrees has returned, every page has a sub-page or a
\* Sections mapping with a list that holds a comment; so every page without
\* sub-pages, which is what writePages gives to getMarkdownString, has a
\* Sections mapping, and each write of a page is that of such a page.
C28_NoEmptyPage ==
    Placed =>
        \A d \in 1..Len(docsTrees) :
            /\ \A n \in TreeNodes(d) :
                 n.ipath # <<>> =>
                    /\ HasSubPage(n.node) \/ HasFilledSection(n.node)
                    /\ ~n.node.hasSubPages => n.node.hasSections
            /\ d \in DOMAIN writes =>
                 \A k \in 1..Len(writes[d]) :
                    writes[d][k].kind = "page" =>
                        \E n \in LeafPages(d) :
                            /\ n.names = writes[d][k].pages
                            /\ HasFilledSection(n.node)

\* C28 witness: the file of a page without sub-pages, which lies below a
\* page that has sub-pages and no section, is being written
C28_Witness ==
    \E d \in DOMAIN step : \E n \in LeafPages(d) : \E m \in TreeNodes(d) :
        /\ Started(d)
        /\ Len(n.ipath) = 2
        /\ m.ipath = SubSeq(n.ipath, 1, 1)
        /\ HasSubPage(m.node) /\ ~m.node.hasSections
        /\ \E k \in WritesFor(d, n.names) : writes[d][k].st = "writeFile"

====
